---- MODULE Spec2Model ----
(***************************************************************************)
(* Argus: the Node2Vec + Isolation Forest detector                         *)
(* (argus/detection/ml_detection.py), the phantom injector driven by the   *)
(* live-visualization callback (examples/live_visualization.py), and the   *)
(* swarm they act on.                                                      *)
(*                                                                         *)
(* Numbers: a raw decision-function value is an integer (a fixed-point     *)
(* score); a confidence is the exact fraction [num, den] of the code's     *)
(* 1.0 - (score - min_score) / score_range.  An embedding vector is one    *)
(* value of Vec.  Node2Vec and IsolationForest are library calls: what     *)
(* Node2Vec returns (or that it raises) is an input of the action, the     *)
(* forest is the deterministic function DecisionFunction of the rows it    *)
(* was fitted on (random_state = 42).  Fields that are written and never   *)
(* read (baseline_graphs, node2vec_model, the result's detector_name and   *)
(* timestamp) are left out.                                                *)
(***************************************************************************)
EXTENDS Integers, Sequences, FiniteSets, TLC

VARIABLES
    isolation_forest,     \* self.isolation_forest: None or the fitted forest
    baseline_embeddings,  \* self.baseline_embeddings: str(node) -> vector
    op,                   \* the call that ended last: "init", "train", "detect", ...
    arg,                  \* the graph (detect) or the graph list (train) the caller passed
    graph,                \* the caller's graph object as it is after the call
    out,                  \* what the last call gave: the result it returned, the
                          \* last message it logged ("" when none) and, for
                          \* detect, its local collections as they were at the end
    num_uavs,             \* Swarm(num_uavs=...)
    uavs,                 \* swarm.uavs: identity -> is_legitimate
    simulation_time,      \* swarm.simulation_time
    attack,               \* the AttackScenario
    injector,             \* the PhantomInjector: the identities it owns, the
                          \* scenario's state, the identity set before it injected
    attack_injected,      \* the flag of main() that the callback reads and writes
    called_in,            \* the scenario state that the last injector or callback
                          \* call found
    calls,                \* the calls of inject and remove_phantoms that the
                          \* callback has made, in order, each with its time
    inputs,               \* the clean graphs and the graph given to both executions
    run_a, run_b          \* what each of two executions of train, then detect, gave

detectorVars == <<isolation_forest, baseline_embeddings>>
callVars == <<op, arg, graph, out>>
swarmVars == <<num_uavs, uavs, simulation_time, attack, injector, attack_injected, called_in,
               calls>>
reproVars == <<inputs, run_a, run_b>>
vars == <<isolation_forest, baseline_embeddings, op, arg, graph, out,
          num_uavs, uavs, simulation_time, attack, injector, attack_injected, called_in,
          calls, inputs, run_a, run_b>>

(***************************************************************************)
(* Bounds of the model.                                                    *)
(***************************************************************************)
MaxNodes == 2     \* graphs have 0..MaxNodes nodes
MaxVec == 1       \* embedding vectors are 0..MaxVec
MaxClock == 1     \* time.time() reads 0..MaxClock
MaxUavs == 2      \* a swarm starts with at most MaxUavs UAVs
MaxForeign == 1   \* illegitimate UAVs in the swarm that the injector did not create
MaxPhantoms == 2  \* phantom_count is 0..MaxPhantoms
MaxStart == 1     \* start_time is 0..MaxStart
MaxDuration == 2  \* duration is 1..MaxDuration
MaxStep == 2      \* one step advances the simulation time by 1..MaxStep

None == [none |-> TRUE]
Vec == 0..MaxVec

(***************************************************************************)
(* Graphs.  nodes is graph.nodes() in iteration order; attr[n] is the node *)
(* data of n: "legit" / "phantom" is a "uav" entry whose is_legitimate is  *)
(* True / False, "none" is no "uav" entry, "broken" is a "uav" entry whose *)
(* object has no is_legitimate attribute.                                  *)
(***************************************************************************)
Attrs == {"legit", "phantom", "none", "broken"}

PathEdges(k) == {{i, i + 1} : i \in 1..(k - 1)}

MkGraph(k, a) == [nodes |-> [i \in 1..k |-> i], edges |-> PathEdges(k), attr |-> a]

\* the node data of a k-node graph: the four kinds in turn, starting from
\* any of them
AttrCycle == <<"legit", "phantom", "none", "broken">>
AttrPatterns(k) ==
    {[i \in 1..k |-> AttrCycle[((i + shift) % 4) + 1]] : shift \in 0..3}

Graphs == UNION {{MkGraph(k, a) : a \in AttrPatterns(k)} : k \in 0..MaxNodes}

EmptyGraph == MkGraph(0, <<>>)

NodeSet(g) == {g.nodes[i] : i \in 1..Len(g.nodes)}

\* str(node)
StrTable == <<"1", "2", "3", "4", "5", "6", "7", "8">>
Str(n) == StrTable[n]

EmptyMap == [x \in {} |-> 0]

(***************************************************************************)
(* The libraries.                                                          *)
(***************************************************************************)
PartialMaps(keys) == UNION {[d -> Vec] : d \in SUBSET keys}

\* What Node2Vec(graph, ...).fit(...) can do: raise, or return a model whose
\* word vectors wv cover some of the node names.
N2VOutcomes(g) ==
    {[raised |-> TRUE, wv |-> EmptyMap]}
        \cup {[raised |-> FALSE, wv |-> f] : f \in PartialMaps({Str(n) : n \in NodeSet(g)})}

RandomState == 42

\* IsolationForest(..., random_state=42).fit(embeddings_array)
IsolationForestFit(embeddings_list) == [random_state |-> RandomState, X |-> embeddings_list]

Count(X, v) == Cardinality({i \in 1..Len(X) : X[i] = v})

\* forest.decision_function: a fixed function of the fitted rows and the
\* scored row; rows that are rare among the fitted ones score lower.
DecisionFunction(forest, v) == 2 * Count(forest.X, v) - Len(forest.X)

\* forest.predict: -1 (outlier) where the decision function is negative.
Predict(forest, v) == IF DecisionFunction(forest, v) < 0 THEN -1 ELSE 1

(***************************************************************************)
(* The embedding loop shared by train (114-121) and detect (193-202).      *)
(***************************************************************************)
HasEmbedding(model, n) == Str(n) \in DOMAIN model.wv

NodeList(g, model) == SelectSeq(g.nodes, LAMBDA n : HasEmbedding(model, n))

EmbeddingsList(g, model) ==
    LET node_list == NodeList(g, model)
    IN  [i \in 1..Len(node_list) |-> model.wv[Str(node_list[i])]]

(***************************************************************************)
(* Node2VecDetector.__init__ and train.  train returns the detector as it  *)
(* is when train ends and the last message it logged.                      *)
(***************************************************************************)
NewDetector ==
    [isolation_forest |-> None, baseline_embeddings |-> EmptyMap]

\* self.baseline_embeddings[str(node)] = embedding, for every node found
StoreBaseline(be, g, model) ==
    LET new == {Str(n) : n \in {m \in NodeSet(g) : HasEmbedding(model, m)}}
    IN  [s \in (DOMAIN be) \cup new |-> IF s \in new THEN model.wv[s] ELSE be[s]]

train(self, clean_graphs, n2v, fit_raises) ==
    IF clean_graphs = <<>>
    THEN [self |-> self, log |-> "No clean graphs provided for training"]
    ELSE LET training_graph == clean_graphs[Len(clean_graphs)]
         IN  IF Len(training_graph.nodes) = 0
             THEN [self |-> self, log |-> "Training graph is empty"]
             ELSE IF n2v.raised
             THEN [self |-> [self EXCEPT !.isolation_forest = None],
                   log |-> "Error training Node2Vec"]
             ELSE LET embeddings_list == EmbeddingsList(training_graph, n2v)
                      stored == [self EXCEPT
                                    !.baseline_embeddings =
                                        StoreBaseline(self.baseline_embeddings, training_graph, n2v)]
                  IN  IF embeddings_list = <<>>
                      THEN [self |-> stored, log |-> "No embeddings generated"]
                      ELSE IF fit_raises
                      THEN [self |-> [stored EXCEPT !.isolation_forest = None],
                            log |-> "Error training Node2Vec"]
                      ELSE [self |-> [stored EXCEPT
                                         !.isolation_forest = IsolationForestFit(embeddings_list)],
                            log |-> "Node2Vec detector trained"]

(***************************************************************************)
(* Node2VecDetector.detect.                                                *)
(***************************************************************************)
DetectionResult(anomalous_uav_ids, confidence_scores, ground_truth, detection_time) ==
    [anomalous_uav_ids |-> anomalous_uav_ids,
     confidence_scores |-> confidence_scores,
     ground_truth |-> ground_truth,
     detection_time |-> detection_time]

\* a call that ends in an exception instead of a return value
Raised == [exception |-> "Exception"]

\* the operands of the subtraction swapped
ElapsedSwapped(start_time, now) == start_time - now

\* detection_time = time.time() - start_time
Elapsed(start_time, now) == now - start_time

\* the early return of lines 166-175, and the one of lines 204-214
EmptyResult(start_time, now) ==
    DetectionResult({}, EmptyMap, EmptyMap, Elapsed(start_time, now))

\* line 166
NothingToScore(g, forest) == Len(g.nodes) = 0 \/ forest = None

SeqMin(s) == CHOOSE x \in {s[i] : i \in 1..Len(s)} : \A i \in 1..Len(s) : x <= s[i]
SeqMax(s) == CHOOSE x \in {s[i] : i \in 1..Len(s)} : \A i \in 1..Len(s) : x >= s[i]

\* the score divided by the range without min_score taken off first
NormalizedScoreNoMin(score, min_score, score_range) ==
    IF score_range > 0
    THEN [num |-> score_range - score, den |-> score_range]
    ELSE [num |-> 1, den |-> 2]

\* the scaled score without the 1.0 - in front of it
NormalizedScoreNotInverted(score, min_score, score_range) ==
    IF score_range > 0
    THEN [num |-> score - min_score, den |-> score_range]
    ELSE [num |-> 1, den |-> 2]

\* lines 228-233: 1.0 - (score - min_score) / score_range as an exact fraction
NormalizedScore(score, min_score, score_range) ==
    IF score_range > 0
    THEN [num |-> score_range - (score - min_score), den |-> score_range]
    ELSE [num |-> 1, den |-> 2]

\* the ground-truth loop run over the nodes that were scored
GroundTruthScoredOnly(g, node_list) == node_list

\* line 240: the ground-truth loop runs over graph.nodes()
GroundTruthNodes(g, node_list) == g.nodes

\* every node taken as legitimate
GroundTruthAlwaysTrue(g, n) == TRUE

\* lines 241-246
GroundTruthOf(g, n) ==
    IF g.attr[n] = "none" THEN TRUE ELSE g.attr[n] = "legit"

\* how many nodes the ground-truth loop gets through: all of them, or those
\* before the first uav object without is_legitimate
GroundTruthUpto(g, nodes) ==
    LET bad == {i \in 1..Len(nodes) : g.attr[nodes[i]] = "broken"}
    IN  IF bad = {} THEN Len(nodes)
        ELSE (CHOOSE i \in bad : \A j \in bad : i <= j) - 1

\* the except clause returning the collections of lines 162-164
OnExceptionLocals(confidence_scores, anomalous_uav_ids, ground_truth, start_time, now) ==
    DetectionResult(anomalous_uav_ids, confidence_scores, ground_truth,
                    Elapsed(start_time, now))

\* lines 263-273: the except clause returns fresh empty collections, not the
\* locals filled so far
OnException(confidence_scores, anomalous_uav_ids, ground_truth, start_time, now) ==
    DetectionResult({}, EmptyMap, EmptyMap, Elapsed(start_time, now))

\* lines 162-164, and the local names bound later
Locals(anomaly_scores, confidence_scores, anomalous_uav_ids, ground_truth) ==
    [anomaly_scores |-> anomaly_scores,
     confidence_scores |-> confidence_scores,
     anomalous_uav_ids |-> anomalous_uav_ids,
     ground_truth |-> ground_truth]

NoLocals == Locals(<<>>, EmptyMap, {}, EmptyMap)

ErrorInDetection == "Error in Node2Vec detection"

\* detect's except clause clearing the forest, as train's does (line 143)
DetectorClearedOnError(self, g, lib) ==
    IF ~NothingToScore(g, self.isolation_forest) /\ (lib.n2v.raised \/ lib.score_raises)
    THEN [self EXCEPT !.isolation_forest = None]
    ELSE self

\* detect assigns no attribute of self and calls nothing that changes the graph
DetectorAfterDetect(self, g, lib) == self
GraphAfterDetect(g) == g

\* lib = [n2v, score_raises, loop_fault]: what the library calls of this
\* detect do; t = <<start_time, now>>: the reads of time.time() at entry
\* and at the end
detect(self, g, lib, t) ==
    IF NothingToScore(g, self.isolation_forest)
    THEN [result |-> EmptyResult(t[1], t[2]), log |-> "", locals |-> NoLocals]
    ELSE IF lib.n2v.raised
    THEN [result |-> OnException(EmptyMap, {}, EmptyMap, t[1], t[2]),
          log |-> ErrorInDetection, locals |-> NoLocals]
    ELSE LET current_model == lib.n2v
             node_list == NodeList(g, current_model)
             embeddings_list == EmbeddingsList(g, current_model)
         IN  IF embeddings_list = <<>>
             THEN [result |-> EmptyResult(t[1], t[2]),
                   log |-> "No embeddings generated for current graph",
                   locals |-> NoLocals]
             ELSE IF lib.score_raises
             THEN [result |-> OnException(EmptyMap, {}, EmptyMap, t[1], t[2]),
                   log |-> ErrorInDetection, locals |-> NoLocals]
             ELSE LET anomaly_scores ==
                          [i \in 1..Len(embeddings_list) |->
                              DecisionFunction(self.isolation_forest, embeddings_list[i])]
                      predictions ==
                          [i \in 1..Len(embeddings_list) |->
                              Predict(self.isolation_forest, embeddings_list[i])]
                      min_score == SeqMin(anomaly_scores)
                      max_score == SeqMax(anomaly_scores)
                      score_range == max_score - min_score
                      \* the scoring loop runs to its end, or fails at entry loop_fault
                      done == IF lib.loop_fault \in 1..Len(node_list)
                              THEN lib.loop_fault - 1 ELSE Len(node_list)
                      confidence_scores ==
                          [n \in {node_list[i] : i \in 1..done} |->
                              LET i == CHOOSE j \in 1..done : node_list[j] = n
                              IN  NormalizedScore(anomaly_scores[i], min_score, score_range)]
                      anomalous_uav_ids ==
                          {node_list[i] : i \in {j \in 1..done : predictions[j] = -1}}
                      gt_nodes == GroundTruthNodes(g, node_list)
                      gt_done == IF done < Len(node_list) THEN 0
                                 ELSE GroundTruthUpto(g, gt_nodes)
                      ground_truth ==
                          [n \in {gt_nodes[i] : i \in 1..gt_done} |-> GroundTruthOf(g, n)]
                      at_end == Locals(anomaly_scores, confidence_scores,
                                       anomalous_uav_ids, ground_truth)
                  IN  IF done < Len(node_list) \/ gt_done < Len(gt_nodes)
                      THEN [result |-> OnException(confidence_scores, anomalous_uav_ids,
                                                   ground_truth, t[1], t[2]),
                            log |-> ErrorInDetection, locals |-> at_end]
                      ELSE [result |-> DetectionResult(anomalous_uav_ids, confidence_scores,
                                                       ground_truth, Elapsed(t[1], t[2])),
                            log |-> "Node2Vec detection: anomalies detected",
                            locals |-> at_end]

(***************************************************************************)
(* The inputs.                                                             *)
(***************************************************************************)
\* train reads only the last graph of the list (line 87); the graph before
\* it, when there is one, is a 1-node graph
PrefixGraphs == {MkGraph(1, <<"legit">>)}

CleanGraphLists ==
    {<<>>} \cup {<<g>> : g \in Graphs} \cup {<<h, g>> : h \in PrefixGraphs, g \in Graphs}

LastGraph(gs) == IF gs = <<>> THEN EmptyGraph ELSE gs[Len(gs)]

\* time.time() does not run backwards during a call
Clock == 0..MaxClock
TimeReads == {t \in Clock \X Clock : t[1] <= t[2]}

\* no library call is made
NoCall == [n2v |-> [raised |-> TRUE, wv |-> EmptyMap], score_raises |-> FALSE, loop_fault |-> 0]

\* What the library calls of one detect can do, each course of the call
\* once: Node2Vec raises; or it returns a model and then scoring raises, or
\* the scoring loop fails at one of its entries, or nothing fails.
DetectLibs(self, g) ==
    IF NothingToScore(g, self.isolation_forest)
    THEN {NoCall}
    ELSE {lib \in [n2v : N2VOutcomes(g), score_raises : BOOLEAN,
                   loop_fault : 0..Len(g.nodes)] :
             /\ lib.n2v.raised => lib = NoCall
             /\ lib.score_raises => lib.loop_fault = 0 /\ NodeList(g, lib.n2v) # <<>>
             /\ lib.loop_fault <= Len(NodeList(g, lib.n2v))}

\* the same for train: Node2Vec raises, or returns a model and then
\* IsolationForest.fit raises or not
TrainLibs(clean_graphs) ==
    IF clean_graphs = <<>> \/ Len(LastGraph(clean_graphs).nodes) = 0
    THEN {[n2v |-> NoCall.n2v, fit_raises |-> FALSE]}
    ELSE {lib \in [n2v : N2VOutcomes(LastGraph(clean_graphs)), fit_raises : BOOLEAN] :
             lib.fit_raises =>
                 /\ ~lib.n2v.raised
                 /\ NodeList(LastGraph(clean_graphs), lib.n2v) # <<>>}

Self == [isolation_forest |-> isolation_forest,
         baseline_embeddings |-> baseline_embeddings]

NoResult == [none |-> TRUE]

(***************************************************************************)
(* The swarm, the attack scenario and the phantom injector (argus.core and *)
(* argus.attacks).  Times are whole seconds.                               *)
(***************************************************************************)
\* Swarm(num_uavs=n, ...): n legitimate UAVs, identities 1..n
NewSwarm(n) == [id \in 1..n |-> TRUE]

\* AttackScenario(attack_type=PHANTOM, start_time, duration, phantom_count)
Scenarios ==
    [attack_type : {"PHANTOM"}, start_time : 0..MaxStart, duration : 1..MaxDuration,
     phantom_count : 0..MaxPhantoms]

\* the window taken as closed at its end
is_active_closed(a, t) == a.start_time <= t /\ t <= a.start_time + a.duration

\* AttackScenario.is_active
is_active(a, t) == a.start_time <= t /\ t < a.start_time + a.duration

\* PhantomInjector()
NewInjector == [phantom_ids |-> {}, scenario_state |-> "Inactive", pre_ids |-> {}]

SetMax(S) == IF S = {} THEN 0 ELSE CHOOSE x \in S : \A y \in S : y <= x

\* k identities that the swarm does not hold
NewIds(existing, k) == (SetMax(existing) + 1)..(SetMax(existing) + k)

\* inject without the test of the scenario's state
inject_always(w, a, current_time) ==
    LET new == NewIds(DOMAIN w.uavs, a.phantom_count)
    IN  [uavs |-> [id \in (DOMAIN w.uavs) \cup new |->
                      IF id \in new THEN FALSE ELSE w.uavs[id]],
         injector |-> [phantom_ids |-> w.injector.phantom_ids \cup new,
                       scenario_state |-> "Active",
                       pre_ids |-> DOMAIN w.uavs]]

\* w = [uavs, injector]: the swarm's UAVs and the injector before the call;
\* both operations give them as they are after it
inject(w, a, current_time) ==
    IF w.injector.scenario_state # "Inactive"
    THEN w
    ELSE LET new == NewIds(DOMAIN w.uavs, a.phantom_count)
         IN  [uavs |-> [id \in (DOMAIN w.uavs) \cup new |->
                           IF id \in new THEN FALSE ELSE w.uavs[id]],
              injector |-> [phantom_ids |-> new,
                            scenario_state |-> "Active",
                            pre_ids |-> DOMAIN w.uavs]]

\* every identity of the swarm that is not legitimate
IllegitimateIds(w) == {id \in DOMAIN w.uavs : ~w.uavs[id]}

\* the identities remove_phantoms takes out of the swarm: the ones the
\* injector tracks
IdsToRemove(w) == w.injector.phantom_ids

remove_phantoms(w) ==
    IF w.injector.scenario_state # "Active"
    THEN w
    ELSE [uavs |-> [id \in (DOMAIN w.uavs) \ IdsToRemove(w) |-> w.uavs[id]],
          injector |-> [w.injector EXCEPT !.phantom_ids = {}, !.scenario_state = "Removed"]]

\* Swarm.get_graph(): one node per UAV, carrying its uav object; the edges
\* are those of UAVs in range of each other (here: consecutive identities)
Sorted(S) ==
    [i \in 1..Cardinality(S) |-> CHOOSE x \in S : Cardinality({y \in S : y < x}) = i - 1]

SnapshotGraph(u) ==
    [nodes |-> Sorted(DOMAIN u),
     edges |-> {{x, y} : x, y \in DOMAIN u} \ {{x} : x \in DOMAIN u},
     attr |-> [id \in DOMAIN u |-> IF u[id] THEN "legit" ELSE "phantom"]]

World == [uavs |-> uavs, injector |-> injector]

(***************************************************************************)
(* inject_attack_callback of examples/live_visualization.py.  It gives the *)
(* swarm, the injector and the flag as they are when it returns, and which *)
(* of its two branches it took.                                            *)
(***************************************************************************)
\* the first branch taken whenever the scenario is active, the flag not read
inject_attack_callback_no_flag(w, a, flag, current_time) ==
    LET injects == is_active(a, current_time)
        w1 == IF injects THEN inject(w, a, current_time) ELSE w
        flag1 == IF injects THEN TRUE ELSE flag
        removes == current_time >= a.start_time + a.duration /\ flag1
        w2 == IF removes THEN remove_phantoms(w1) ELSE w1
        flag2 == IF removes THEN FALSE ELSE flag1
    IN  [w |-> w2, attack_injected |-> flag2, injected |-> injects, removed |-> removes]

inject_attack_callback(w, a, flag, current_time) ==
    LET injects == is_active(a, current_time) /\ ~flag
        w1 == IF injects THEN inject(w, a, current_time) ELSE w
        flag1 == IF injects THEN TRUE ELSE flag
        removes == current_time >= a.start_time + a.duration /\ flag1
        w2 == IF removes THEN remove_phantoms(w1) ELSE w1
        flag2 == IF removes THEN FALSE ELSE flag1
    IN  [w |-> w2, attack_injected |-> flag2, injected |-> injects, removed |-> removes]

\* the simulation time does not go past this
TimeLimit == MaxStart + MaxDuration + MaxStep

(***************************************************************************)
(* The detector on its own: any sequence of train and detect calls.        *)
(***************************************************************************)
NoSwarm ==
    /\ num_uavs = 0
    /\ uavs = NewSwarm(0)
    /\ simulation_time = 0
    /\ attack = [attack_type |-> "PHANTOM", start_time |-> 0, duration |-> 1,
                 phantom_count |-> 0]
    /\ injector = NewInjector
    /\ attack_injected = FALSE
    /\ called_in = "Inactive"
    /\ calls = <<>>

NotRun == [done |-> FALSE]

NoExecutions ==
    /\ inputs = [clean_graphs |-> <<>>, graph |-> EmptyGraph]
    /\ run_a = NotRun
    /\ run_b = NotRun

NewDetectorAndNoCall ==
    /\ isolation_forest = NewDetector.isolation_forest
    /\ baseline_embeddings = NewDetector.baseline_embeddings
    /\ op = "init"
    /\ arg = EmptyGraph
    /\ graph = EmptyGraph
    /\ out = [result |-> NoResult, log |-> "", locals |-> NoLocals]

Init ==
    /\ NoSwarm
    /\ NewDetectorAndNoCall
    /\ NoExecutions

Train ==
    \E clean_graphs \in CleanGraphLists :
        \E lib \in TrainLibs(clean_graphs) :
            LET after == train(Self, clean_graphs, lib.n2v, lib.fit_raises)
            IN  /\ isolation_forest' = after.self.isolation_forest
                /\ baseline_embeddings' = after.self.baseline_embeddings
                /\ op' = "train"
                /\ arg' = LastGraph(clean_graphs)
                /\ graph' = LastGraph(clean_graphs)
                /\ out' = [result |-> NoResult, log |-> after.log, locals |-> NoLocals]
                /\ UNCHANGED <<swarmVars, reproVars>>

Detect ==
    \E g \in Graphs :
        \E lib \in DetectLibs(Self, g), t \in TimeReads :
            LET after == DetectorAfterDetect(Self, g, lib)
            IN  /\ isolation_forest' = after.isolation_forest
                /\ baseline_embeddings' = after.baseline_embeddings
                /\ op' = "detect"
                /\ arg' = g
                /\ graph' = GraphAfterDetect(g)
                /\ out' = detect(Self, g, lib, t)
                /\ UNCHANGED <<swarmVars, reproVars>>

Next == Train \/ Detect

Spec == Init /\ [][Next]_vars

(***************************************************************************)
(* The injector on its own: any sequence of inject and remove_phantoms     *)
(* calls on a swarm that may hold illegitimate UAVs of another origin.     *)
(***************************************************************************)
InitInjector ==
    /\ NewDetectorAndNoCall
    /\ NoExecutions
    /\ num_uavs \in 0..MaxUavs
    /\ \E foreign \in 0..MaxForeign :
           uavs = [id \in 1..(num_uavs + foreign) |-> id <= num_uavs]
    /\ simulation_time = 0
    /\ attack \in Scenarios
    /\ injector = NewInjector
    /\ attack_injected = FALSE
    /\ called_in = "Inactive"
    /\ calls = <<>>

CallEnded(name, message) ==
    /\ op' = name
    /\ out' = [result |-> NoResult, log |-> message, locals |-> NoLocals]
    /\ called_in' = injector.scenario_state
    /\ UNCHANGED <<arg, graph>>

Inject ==
    LET after == inject(World, attack, simulation_time)
    IN  /\ uavs' = after.uavs
        /\ injector' = after.injector
        /\ CallEnded("inject", "")
        /\ UNCHANGED <<detectorVars, num_uavs, simulation_time, attack, attack_injected,
                       calls, reproVars>>

RemovePhantoms ==
    LET after == remove_phantoms(World)
    IN  /\ uavs' = after.uavs
        /\ injector' = after.injector
        /\ CallEnded("remove_phantoms", "")
        /\ UNCHANGED <<detectorVars, num_uavs, simulation_time, attack, attack_injected,
                       calls, reproVars>>

NextInjector == Inject \/ RemovePhantoms

SpecInjector == InitInjector /\ [][NextInjector]_vars

(***************************************************************************)
(* The live visualization: the swarm of main(), stepped by the animation,  *)
(* with inject_attack_callback called between steps; a detector that may   *)
(* be trained on the first snapshot and is given later snapshots.          *)
(***************************************************************************)
InitDriver ==
    /\ NewDetectorAndNoCall
    /\ NoExecutions
    /\ num_uavs \in 1..MaxUavs
    /\ uavs = NewSwarm(num_uavs)
    /\ simulation_time = 0
    /\ attack \in Scenarios
    /\ injector = NewInjector
    /\ attack_injected = FALSE
    /\ called_in = "Inactive"
    /\ calls = <<>>

\* Swarm.step(dt)
Step ==
    \E dt \in 1..MaxStep :
        /\ simulation_time + dt <= TimeLimit
        /\ simulation_time' = simulation_time + dt
        /\ op' = "step"
        /\ out' = [result |-> NoResult, log |-> "", locals |-> NoLocals]
        /\ UNCHANGED <<detectorVars, arg, graph, num_uavs, uavs, attack, injector,
                       attack_injected, called_in, calls, reproVars>>

Printed(after) ==
    IF after.injected /\ after.removed THEN "Phantom attack injected; Phantoms removed"
    ELSE IF after.injected THEN "Phantom attack injected"
    ELSE IF after.removed THEN "Phantoms removed"
    ELSE ""

\* the calls one invocation of the callback makes, in order
CallsOf(after, current_time) ==
    (IF after.injected THEN <<[name |-> "inject", time |-> current_time]>> ELSE <<>>)
        \o (IF after.removed THEN <<[name |-> "remove_phantoms", time |-> current_time]>>
            ELSE <<>>)

Callback ==
    LET after == inject_attack_callback(World, attack, attack_injected, simulation_time)
    IN  /\ uavs' = after.w.uavs
        /\ injector' = after.w.injector
        /\ attack_injected' = after.attack_injected
        /\ calls' = calls \o CallsOf(after, simulation_time)
        /\ CallEnded("callback", Printed(after))
        /\ UNCHANGED <<detectorVars, num_uavs, simulation_time, attack, reproVars>>

\* the model Node2Vec returns for a snapshot: every node of keys embedded
\* with the same vector
UniformModel(keys, v) == [raised |-> FALSE, wv |-> [s \in keys |-> v]]

\* every node embedded, or the first node only
SnapshotModels(g) ==
    {UniformModel({Str(n) : n \in NodeSet(g)}, v) : v \in Vec}
        \cup {UniformModel({Str(g.nodes[1])}, 0)}

\* what the library calls of a detect on a snapshot do
SnapshotLibs(self, g) ==
    IF NothingToScore(g, self.isolation_forest)
    THEN {NoCall}
    ELSE {NoCall}
            \cup {[n2v |-> m, score_raises |-> b, loop_fault |-> 0] :
                     m \in SnapshotModels(g), b \in BOOLEAN}

\* train([swarm.get_graph()]) before the animation starts
TrainClean ==
    /\ op = "init"
    /\ LET g == SnapshotGraph(uavs)
       IN  \E n2v \in {NoCall.n2v} \cup SnapshotModels(g) :
               LET after == train(Self, <<g>>, n2v, FALSE)
               IN  /\ isolation_forest' = after.self.isolation_forest
                   /\ baseline_embeddings' = after.self.baseline_embeddings
                   /\ op' = "train"
                   /\ arg' = g
                   /\ graph' = g
                   /\ out' = [result |-> NoResult, log |-> after.log, locals |-> NoLocals]
                   /\ UNCHANGED <<swarmVars, reproVars>>

\* detect(swarm.get_graph()); the call takes no time
DetectSnapshot ==
    LET g == SnapshotGraph(uavs)
    IN  \E lib \in SnapshotLibs(Self, g), t \in {<<0, 0>>} :
            LET after == DetectorAfterDetect(Self, g, lib)
            IN  /\ isolation_forest' = after.isolation_forest
                /\ baseline_embeddings' = after.baseline_embeddings
                /\ op' = "detect"
                /\ arg' = g
                /\ graph' = GraphAfterDetect(g)
                /\ out' = detect(Self, g, lib, t)
                /\ UNCHANGED <<swarmVars, reproVars>>

NextDriver == Step \/ Callback \/ TrainClean \/ DetectSnapshot

SpecDriver == InitDriver /\ [][NextDriver]_vars

(***************************************************************************)
(* The scenario on its own: the simulation time advances and is_active is  *)
(* asked at the current time.                                              *)
(***************************************************************************)
InitScenario ==
    /\ NewDetectorAndNoCall
    /\ NoExecutions
    /\ num_uavs = 0
    /\ uavs = NewSwarm(0)
    /\ simulation_time = 0
    /\ attack \in Scenarios
    /\ injector = NewInjector
    /\ attack_injected = FALSE
    /\ called_in = "Inactive"
    /\ calls = <<>>

\* attack.is_active(swarm.simulation_time)
IsActive ==
    /\ op' = "is_active"
    /\ out' = [result |-> [is_active |-> is_active(attack, simulation_time)],
               log |-> "", locals |-> NoLocals]
    /\ UNCHANGED <<detectorVars, arg, graph, swarmVars, reproVars>>

NextScenario == Step \/ IsActive

SpecScenario == InitScenario /\ [][NextScenario]_vars

(***************************************************************************)
(* Two executions of the same program on the same inputs: a new detector,  *)
(* train(clean_graphs), detect(graph).  Node2Vec is constructed without a  *)
(* seed (lines 99-108, 179-188), so its walks are drawn from the process's *)
(* global random generator, whose state is no input of train or detect:    *)
(* each execution has its own draws.  The forest has random_state = 42.    *)
(***************************************************************************)
\* what the global generator yields for the walks from each node
Draws == [1..MaxNodes -> Vec]

\* Node2Vec(g, ...).fit(...) when nothing fails: the vector of a node is
\* fixed by the graph and the draws
Node2VecFit(g, draws) ==
    [raised |-> FALSE,
     wv |-> [s \in {Str(n) : n \in NodeSet(g)} |->
                draws[CHOOSE n \in NodeSet(g) : Str(n) = s]]]

Execution(in, train_draws, detect_draws) ==
    LET trained == train(NewDetector, in.clean_graphs,
                         Node2VecFit(LastGraph(in.clean_graphs), train_draws), FALSE).self
        current_model == Node2VecFit(in.graph, detect_draws)
        got == detect(trained, in.graph,
                      [n2v |-> current_model, score_raises |-> FALSE, loop_fault |-> 0],
                      <<0, 0>>)
    IN  [done |-> TRUE,
         baseline_embeddings |-> trained.baseline_embeddings,
         embeddings |-> current_model.wv,
         anomalous_uav_ids |-> got.result.anomalous_uav_ids,
         confidence_scores |-> got.result.confidence_scores]

InitRepro ==
    /\ NoSwarm
    /\ NewDetectorAndNoCall
    /\ \E clean \in Graphs, g \in Graphs : inputs = [clean_graphs |-> <<clean>>, graph |-> g]
    /\ run_a = NotRun
    /\ run_b = NotRun

RunA ==
    /\ ~run_a.done
    /\ \E train_draws \in Draws, detect_draws \in Draws :
           run_a' = Execution(inputs, train_draws, detect_draws)
    /\ UNCHANGED <<detectorVars, callVars, swarmVars, inputs, run_b>>

RunB ==
    /\ ~run_b.done
    /\ \E train_draws \in Draws, detect_draws \in Draws :
           run_b' = Execution(inputs, train_draws, detect_draws)
    /\ UNCHANGED <<detectorVars, callVars, swarmVars, inputs, run_a>>

NextRepro == RunA \/ RunB

SpecRepro == InitRepro /\ [][NextRepro]_vars

(***************************************************************************)
(* Properties of the detector.                                             *)
(***************************************************************************)
IsResult(r) == "anomalous_uav_ids" \in DOMAIN r

IsEmptyResult(r) ==
    /\ IsResult(r)
    /\ r.anomalous_uav_ids = {}
    /\ DOMAIN r.confidence_scores = {}
    /\ DOMAIN r.ground_truth = {}

Trained == isolation_forest # None

\* C1: detect on a graph with zero nodes returns, in every detector state, a
\* DetectionResult whose flagged set, score map and ground-truth map are
\* empty and whose detection time is not negative.
C1_EmptyGraphEmptyResult ==
    (op = "detect" /\ Len(arg.nodes) = 0) =>
        /\ IsEmptyResult(out.result)
        /\ out.result.detection_time >= 0

\* a trained detector has been given the empty graph, and time has passed
C1_Witness ==
    /\ op = "detect"
    /\ Len(arg.nodes) = 0
    /\ Trained
    /\ out.result.detection_time > 0

TrainGaveUp ==
    /\ op = "train"
    /\ out.log \in {"No clean graphs provided for training",
                    "Training graph is empty",
                    "No embeddings generated"}

\* C2: when train is given no graph, a last graph without nodes, or a graph
\* for which no embedding is produced, the detector is untrained when train
\* returns, whatever train calls came before.
C2_GivenUpTrainLeavesUntrained == TrainGaveUp => ~Trained

C4_FailureGivesEmptyResult ==
    op = "detect" =>
        /\ IsResult(out.result)
        /\ out.log = ErrorInDetection => IsEmptyResult(out.result)

\* the failure came after confidence scores and a flag had been computed
C4_Witness ==
    /\ op = "detect"
    /\ out.log = ErrorInDetection
    /\ DOMAIN out.locals.confidence_scores # {}
    /\ out.locals.anomalous_uav_ids # {}

InUnitInterval(c) == c.den > 0 /\ 0 <= c.num /\ c.num <= c.den
IsHalf(c) == 2 * c.num = c.den

AllEqual(scores) == \A i, j \in 1..Len(scores) : scores[i] = scores[j]

\* C5: every confidence in a result is in [0,1], and is exactly 0.5 when all
\* raw scores of the batch are equal.
C5_ConfidenceInUnitInterval ==
    op = "detect" =>
        \A n \in DOMAIN out.result.confidence_scores :
            /\ InUnitInterval(out.result.confidence_scores[n])
            /\ AllEqual(out.locals.anomaly_scores) =>
                   IsHalf(out.result.confidence_scores[n])

\* a batch of two nodes with equal raw scores has been scored
C5_Witness ==
    /\ op = "detect"
    /\ Cardinality(DOMAIN out.result.confidence_scores) = 2
    /\ AllEqual(out.locals.anomaly_scores)

\* C10: a detect call leaves the graph it was given and the detector's
\* forest and baseline embeddings as they were.
C10_DetectIsReadOnly ==
    [][op' = "detect" =>
          /\ graph' = arg'
          /\ isolation_forest' = isolation_forest
          /\ baseline_embeddings' = baseline_embeddings]_vars

\* a trained detector has scored a graph, and one has caught a failure
C10_Witness ==
    /\ op = "detect"
    /\ Trained
    /\ out.log = ErrorInDetection
    /\ DOMAIN baseline_embeddings # {}

\* the nodes of the evaluated graph that the last detect scored, in the
\* order of graph.nodes(), and the raw score of each
ScoredNodes == SelectSeq(arg.nodes, LAMBDA n : n \in DOMAIN out.result.confidence_scores)

RawScore(n) ==
    out.locals.anomaly_scores[CHOOSE i \in 1..Len(ScoredNodes) : ScoredNodes[i] = n]

Scored == {ScoredNodes[i] : i \in 1..Len(ScoredNodes)}

\* C13: in a DetectionResult that is not empty, the flagged nodes are the
\* scored nodes that the forest predicts as outliers (raw score below 0),
\* all of them keys of the confidence map; when the raw scores differ, a
\* node's confidence is 1 - (raw - min) / (max - min): 1 for the lowest raw
\* score, 0 for the highest, and never lower for a lower raw score.
C13_FlaggedAreOutliersConfidenceInverted ==
    (op = "detect" /\ ~IsEmptyResult(out.result)) =>
        LET r == out.result
            conf == r.confidence_scores
            lowest == SeqMin(out.locals.anomaly_scores)
            highest == SeqMax(out.locals.anomaly_scores)
        IN  /\ Len(out.locals.anomaly_scores) = Len(ScoredNodes)
            /\ r.anomalous_uav_ids = {n \in Scored : RawScore(n) < 0}
            /\ r.anomalous_uav_ids \subseteq DOMAIN conf
            /\ lowest < highest =>
                   \A n \in Scored :
                       /\ conf[n].den > 0
                       /\ conf[n].num * (highest - lowest)
                              = conf[n].den * (highest - RawScore(n))
                       /\ RawScore(n) = lowest => conf[n].num = conf[n].den
                       /\ RawScore(n) = highest => conf[n].num = 0
                       /\ \A m \in Scored :
                              RawScore(n) <= RawScore(m) =>
                                  conf[n].num * conf[m].den >= conf[m].num * conf[n].den

\* two nodes have been scored with different raw scores, one of them flagged
C13_Witness ==
    /\ op = "detect"
    /\ ~IsEmptyResult(out.result)
    /\ Len(ScoredNodes) = 2
    /\ RawScore(ScoredNodes[1]) # RawScore(ScoredNodes[2])
    /\ Cardinality(out.result.anomalous_uav_ids) = 1

(***************************************************************************)
(* Properties of the injector and of the swarm it acts on.                 *)
(***************************************************************************)
\* C6: once a scenario has been injected and its phantoms removed, the
\* swarm holds exactly the identities it held just before the injection.
C6_InjectThenRemoveRestoresIds ==
    injector.scenario_state = "Removed" => DOMAIN uavs = injector.pre_ids

\* phantoms were injected into, and removed from, a swarm that holds a
\* legitimate UAV and an illegitimate one the injector did not create
C6_Witness ==
    /\ injector.scenario_state = "Removed"
    /\ op = "remove_phantoms"
    /\ attack.phantom_count > 0
    /\ \E id \in DOMAIN uavs : uavs[id]
    /\ \E id \in DOMAIN uavs : ~uavs[id]

\* C7: inject on an Active scenario, and remove_phantoms on a Removed or
\* never injected one, change neither the swarm's identities nor the
\* identities the injector tracks, and raise nothing.
C7_RedundantCallsAreNoOps ==
    [][(\/ op' = "inject" /\ injector.scenario_state = "Active"
        \/ op' = "remove_phantoms" /\ injector.scenario_state \in {"Removed", "Inactive"})
       => /\ DOMAIN uavs' = DOMAIN uavs
          /\ injector'.phantom_ids = injector.phantom_ids
          /\ out'.result # Raised]_vars

\* inject has been called on a scenario that was Active with phantoms in
\* the swarm
C7_Witness ==
    /\ op = "inject"
    /\ called_in = "Active"
    /\ injector.phantom_ids # {}

GroundTruthFalse(r) == {n \in DOMAIN r.ground_truth : ~r.ground_truth[n]}

SizesWhileActiveAndAfter ==
    /\ injector.scenario_state = "Active" =>
           /\ Cardinality(DOMAIN uavs) = num_uavs + attack.phantom_count
           /\ Cardinality({id \in DOMAIN uavs : ~uavs[id]}) = attack.phantom_count
    /\ injector.scenario_state = "Removed" => Cardinality(DOMAIN uavs) = num_uavs

DetectedWhileActive == op = "detect" /\ injector.scenario_state = "Active"

\* C8 as stated: while the scenario is Active the swarm holds num_uavs +
\* phantom_count UAVs, phantom_count of them illegitimate; a detection on a
\* snapshot of that window reports phantom_count nodes with ground truth
\* False; after removal the swarm holds num_uavs UAVs.
C8_DetectionReportsPhantoms ==
    /\ SizesWhileActiveAndAfter
    /\ DetectedWhileActive =>
           Cardinality(GroundTruthFalse(out.result)) = attack.phantom_count

\* C8 amended: the same, for a detection that returns a result that is not
\* empty; that result has ground truth for all num_uavs + phantom_count nodes.
C8_NonEmptyDetectionReportsPhantoms ==
    /\ SizesWhileActiveAndAfter
    /\ (DetectedWhileActive /\ ~IsEmptyResult(out.result)) =>
           /\ Cardinality(GroundTruthFalse(out.result)) = attack.phantom_count
           /\ Cardinality(DOMAIN out.result.ground_truth) = num_uavs + attack.phantom_count

\* a snapshot of two legitimate UAVs and two phantoms has been scored
C8_Witness ==
    /\ DetectedWhileActive
    /\ ~IsEmptyResult(out.result)
    /\ num_uavs = 2
    /\ Cardinality(GroundTruthFalse(out.result)) = 2

(***************************************************************************)
(* Properties of the scenario and of the callback that drives it.          *)
(***************************************************************************)
\* C11: is_active(t) is true exactly when start_time <= t < start_time +
\* duration: false at every t before start_time, true at start_time and up
\* to the end of the window, false at start_time + duration and later.
C11_ActiveExactlyInWindow ==
    op = "is_active" =>
        LET t == simulation_time
            first == attack.start_time
            end == attack.start_time + attack.duration
            answer == out.result.is_active
        IN  /\ t < first => answer = FALSE
            /\ t = first => answer = TRUE
            /\ (first < t /\ t < end) => answer = TRUE
            /\ t = end => answer = FALSE
            /\ t > end => answer = FALSE

\* is_active has been asked at the end of a window that starts after time 0
\* and lasts more than one second
C11_Witness ==
    /\ op = "is_active"
    /\ attack.start_time > 0
    /\ attack.duration > 1
    /\ simulation_time = attack.start_time + attack.duration
    /\ out.result.is_active = FALSE

\* C12: with the callback invoked any number of times at non-decreasing
\* simulation times, the calls it makes are none, or one inject, or one
\* inject followed by one remove_phantoms: the inject at a time where
\* is_active holds, the remove_phantoms at a time >= start_time + duration
\* and in a later invocation; the scenario is Inactive, Active, Removed
\* accordingly, and nothing is injected after the removal.
C12_InactiveActiveRemoved ==
    LET end == attack.start_time + attack.duration
    IN  /\ Len(calls) <= 2
        /\ Len(calls) >= 1 =>
               /\ calls[1].name = "inject"
               /\ is_active(attack, calls[1].time)
        /\ Len(calls) = 2 =>
               /\ calls[2].name = "remove_phantoms"
               /\ calls[2].time >= end
               /\ calls[2].time > calls[1].time
        /\ out.log # "Phantom attack injected; Phantoms removed"
        /\ injector.scenario_state =
               (IF Len(calls) = 0 THEN "Inactive"
                ELSE IF Len(calls) = 1 THEN "Active" ELSE "Removed")
        /\ attack_injected = (Len(calls) = 1)

\* the callback has injected phantoms and, in a later invocation, has
\* removed them, and is invoked again after that
C12_Witness ==
    /\ Len(calls) = 2
    /\ op = "callback"
    /\ out.log = ""
    /\ called_in = "Removed"
    /\ attack.phantom_count > 0

(***************************************************************************)
(* Reproducibility.                                                        *)
(***************************************************************************)
\* C9: two executions with the same clean graphs and the same graph give
\* the same embeddings, the same flagged set and the same confidence scores.
C9_SameInputsSameOutputs ==
    (run_a.done /\ run_b.done) => run_a = run_b

====
